---- MODULE Spec2Model ----
(***************************************************************************)
(* Model of resume-parser/scripts/resume_parser.py: the field extractors   *)
(* of AdvancedResumeParser (pure functions of the text blob and of the     *)
(* annotated document) and the batch driver process_resumes.               *)
(*                                                                         *)
(* A Python str is a sequence of one-character strings.  The annotator     *)
(* (spaCy) and the date parser (dateparser) are external: an annotated     *)
(* document is any record of entities, sentences, noun chunks and tokens,  *)
(* and every DATE entity carries the outcome date_parse has on its text.   *)
(***************************************************************************)
EXTENDS Integers, Sequences, FiniteSets, TLC

VARIABLES
    text,       \* parse_resume: the local `text`, what _extract_text returned
    doc,        \* parse_resume: the annotated document self.nlp(text)
    record,     \* process_resumes: `result`, the dict parse_resume returned
    listing,    \* process_resumes: os.listdir(input_dir)
    idx,        \* process_resumes: position of the for loop in listing
    pc,         \* process_resumes: where the driver is
    pages,      \* _extract_text: len(pdf.pages) of the open document
    got,        \* _extract_text: the page.extract_text() values so far
    handles,    \* the files whose pdfplumber handle is open
    outputs,    \* the output directory: file name -> what was written
    log,        \* the lines printed by the except branch
    parsed      \* the files parse_resume was called on, in call order

vars == <<text, doc, record, listing, idx, pc, pages, got, handles,
          outputs, log, parsed>>

-----------------------------------------------------------------------------
(* Python str operations *)

UpperChars == <<"A","B","C","D","E","F","G","H","I","J","K","L","M",
                "N","O","P","Q","R","S","T","U","V","W","X","Y","Z">>
LowerChars == <<"a","b","c","d","e","f","g","h","i","j","k","l","m",
                "n","o","p","q","r","s","t","u","v","w","x","y","z">>
DigitChars == {"0","1","2","3","4","5","6","7","8","9"}

Range(s) == {s[i] : i \in DOMAIN s}

\* str.lower() on one character
LowerChar(c) ==
    IF \E i \in DOMAIN UpperChars : UpperChars[i] = c
    THEN LowerChars[CHOOSE i \in DOMAIN UpperChars : UpperChars[i] = c]
    ELSE c

\* str.lower()
Lower(s) == [i \in DOMAIN s |-> LowerChar(s[i])]

\* what str.strip() removes, and what \s matches
IsSpace(c) == c \in {" ", "\n", "\t", "\r", "\f"}

\* what \w matches
IsWordChar(c) == LowerChar(c) \in Range(LowerChars) \/ c \in DigitChars \/ c = "_"

\* s[i-1:].startswith(p), i counted from 1
MatchesAt(s, i, p) ==
    /\ i >= 1
    /\ i + Len(p) - 1 <= Len(s)
    /\ \A k \in 1..Len(p) : s[i + k - 1] = p[k]

\* p in s
Contains(s, p) == \E i \in 1..(Len(s) + 1) : MatchesAt(s, i, p)

\* s.endswith(p)
EndsWith(s, p) == Len(p) <= Len(s) /\ MatchesAt(s, Len(s) - Len(p) + 1, p)

\* s.find(p) counted from 1, 0 when p is not in s
Find(s, p) ==
    IF Contains(s, p)
    THEN CHOOSE i \in 1..(Len(s) + 1) :
            MatchesAt(s, i, p) /\ \A j \in 1..(i - 1) : ~MatchesAt(s, j, p)
    ELSE 0

\* s.split(sep): the pieces between the occurrences of sep found scanning
\* from the left, each search resuming after the previous occurrence
RECURSIVE Split(_, _)
Split(s, sep) ==
    LET i == Find(s, sep) IN
    IF i = 0 THEN <<s>>
    ELSE <<SubSeq(s, 1, i - 1)>> \o Split(SubSeq(s, i + Len(sep), Len(s)), sep)

\* s.strip()
Strip(s) ==
    IF \A i \in DOMAIN s : IsSpace(s[i]) THEN <<>>
    ELSE LET a == CHOOSE i \in DOMAIN s :
                     ~IsSpace(s[i]) /\ \A j \in 1..(i - 1) : IsSpace(s[j])
             b == CHOOSE i \in DOMAIN s :
                     ~IsSpace(s[i]) /\ \A j \in (i + 1)..Len(s) : IsSpace(s[j])
         IN SubSeq(s, a, b)

\* "\n".join(xs)
RECURSIVE Join(_)
Join(xs) ==
    IF xs = <<>> THEN <<>>
    ELSE IF Len(xs) = 1 THEN xs[1]
    ELSE xs[1] \o <<"\n">> \o Join(Tail(xs))

-----------------------------------------------------------------------------
(* The two regular expressions, re.IGNORECASE | re.DOTALL *)

\* (?=\n\w+:|$) at position k: a newline, one or more word characters and a
\* colon follow; or k is the end of the string or the newline that ends it
LabelAhead(s, k) ==
    /\ k <= Len(s)
    /\ s[k] = "\n"
    /\ \E e \in (k + 2)..Len(s) :
          /\ s[e] = ":"
          /\ \A j \in (k + 1)..(e - 1) : IsWordChar(s[j])

DollarAt(s, k) == k = Len(s) + 1 \/ (k = Len(s) /\ s[k] = "\n")

StopAhead(s, k) == LabelAhead(s, k) \/ DollarAt(s, k)

\* (.*?)(?=\n\w+:|$) from position j: the shortest run that ends where the
\* lookahead holds; the end of the string always qualifies
LazyEnd(s, j) ==
    CHOOSE k \in j..(Len(s) + 1) :
        StopAhead(s, k) /\ \A m \in j..(k - 1) : ~StopAhead(s, m)

\* :? takes a colon when there is one
SkipColon(s, j) == IF j <= Len(s) /\ s[j] = ":" THEN j + 1 ELSE j

\* \s* takes every whitespace character that follows
SkipSpaces(s, j) ==
    CHOOSE k \in j..(Len(s) + 1) :
        /\ \A m \in j..(k - 1) : IsSpace(s[m])
        /\ k <= Len(s) => ~IsSpace(s[k])

summary_word == <<"s","u","m","m","a","r","y">>
objective_word == <<"o","b","j","e","c","t","i","v","e">>
education_word == <<"e","d","u","c","a","t","i","o","n">>

\* a keyword matches at position i whatever the case of the text
KeywordMatchesAt(s, i, kw) ==
    /\ i + Len(kw) - 1 <= Len(s)
    /\ \A k \in 1..Len(kw) : LowerChar(s[i + k - 1]) = kw[k]

\* the first keyword of kws that matches at position i, <<>> when none does
KeywordAt(s, i, kws) ==
    IF \E n \in DOMAIN kws : KeywordMatchesAt(s, i, kws[n])
    THEN kws[CHOOSE n \in DOMAIN kws :
                /\ KeywordMatchesAt(s, i, kws[n])
                /\ \A m \in 1..(n - 1) : ~KeywordMatchesAt(s, i, kws[m])]
    ELSE <<>>

\* re.search: the leftmost position where a keyword matches, 0 for no match
\* (what follows the keyword in both patterns matches at any position)
SearchStart(s, kws) ==
    IF \E i \in DOMAIN s : KeywordAt(s, i, kws) # <<>>
    THEN CHOOSE i \in DOMAIN s :
            /\ KeywordAt(s, i, kws) # <<>>
            /\ \A j \in 1..(i - 1) : KeywordAt(s, j, kws) = <<>>
    ELSE 0

\* line 47-49
_extract_summary(t) ==
    LET i == SearchStart(t, <<summary_word, objective_word>>) IN
    IF i = 0 THEN <<>>
    ELSE LET kw == KeywordAt(t, i, <<summary_word, objective_word>>)
             j  == SkipSpaces(t, SkipColon(t, i + Len(kw)))
             k  == LazyEnd(t, j)
         IN Strip(SubSeq(t, j, k - 1))

\* [line.strip() for line in lines if line.strip()]
RECURSIVE StrippedLines(_)
StrippedLines(lines) ==
    IF lines = <<>> THEN <<>>
    ELSE (IF Strip(Head(lines)) # <<>> THEN <<Strip(Head(lines))>> ELSE <<>>)
         \o StrippedLines(Tail(lines))

\* line 99-105
_extract_education(t) ==
    LET i == SearchStart(t, <<education_word>>) IN
    IF i = 0 THEN <<>>
    ELSE LET j == SkipColon(t, i + Len(education_word))
             k == LazyEnd(t, j)
         IN StrippedLines(Split(SubSeq(t, j, k - 1), <<"\n">>))

-----------------------------------------------------------------------------
(* The annotated document and the extractors that read it *)

\* what date_parse(ent.text) does: returns None, raises, or returns a datetime
\* (counted in hours)
DateNone == [kind |-> "none", hour |-> 0]
DateRaises == [kind |-> "raises", hour |-> 0]
DateOn(h) == [kind |-> "date", hour |-> h]

\* (later - earlier).days: the whole days of a timedelta
TimedeltaDays(later, earlier) == (later - earlier) \div 24

\* line 54: the entities whose text goes to date_parse
IsDateCandidate(ent) == ent.label = "DATE" /\ Len(ent.text) > 4

\* line 53-58: the list `dates` after the loop; a raising date_parse appends
\* nothing, a None is appended like a datetime
RECURSIVE CollectDates(_)
CollectDates(ents) ==
    IF ents = <<>> THEN <<>>
    ELSE (IF IsDateCandidate(Head(ents)) /\ Head(ents).parsed.kind # "raises"
          THEN <<Head(ents).parsed>> ELSE <<>>)
         \o CollectDates(Tail(ents))

\* [d for d in dates if d]
RECURSIVE DropNone(_)
DropNone(dates) ==
    IF dates = <<>> THEN <<>>
    ELSE (IF Head(dates).kind = "date" THEN <<Head(dates).hour>> ELSE <<>>)
         \o DropNone(Tail(dates))

\* mutant of SortedDates: the dates are left in document order
UnsortedDates(dates) == dates

\* sorted(...)
SortedDates(dates) == SortSeq(dates, LAMBDA a, b : a < b)

\* line 51-66
_calculate_experience(d) ==
    LET dates == CollectDates(d.ents) IN
    IF Len(dates) < 2 THEN 0
    ELSE LET sorted == SortedDates(DropNone(dates)) IN
         IF sorted # <<>>
         THEN TimedeltaDays(sorted[Len(sorted)], sorted[1]) \div 365
         ELSE 0

\* the order in which list(set(...)) yields the elements is CPython's, fixed
\* by the hash seed of the process: seed 0 stands for the order of first
\* insertion, any other seed for its reverse
RECURSIVE Dedup(_)
Dedup(xs) ==
    IF xs = <<>> THEN <<>>
    ELSE LET front == Dedup(SubSeq(xs, 1, Len(xs) - 1)) IN
         IF xs[Len(xs)] \in Range(front) THEN front
         ELSE Append(front, xs[Len(xs)])

Reverse(xs) == [i \in DOMAIN xs |-> xs[Len(xs) + 1 - i]]

ListOfSet(xs, seed) == IF seed = 0 THEN Dedup(xs) ELSE Reverse(Dedup(xs))

\* [ent.text for ent in ents if ent.label_ == label]
RECURSIVE TextsLabeled(_, _)
TextsLabeled(ents, label) ==
    IF ents = <<>> THEN <<>>
    ELSE (IF Head(ents).label = label THEN <<Head(ents).text>> ELSE <<>>)
         \o TextsLabeled(Tail(ents), label)

\* line 72: some VERB token with lemma develop, design or build has its
\* lowered text inside the lowered chunk text
ChunkIsSkill(chunk, tokens) ==
    \E i \in DOMAIN tokens :
        /\ tokens[i].pos = "VERB"
        /\ tokens[i].lemma \in {"develop", "design", "build"}
        /\ Contains(Lower(chunk), Lower(tokens[i].text))

RECURSIVE SkillChunks(_, _)
SkillChunks(chunks, tokens) ==
    IF chunks = <<>> THEN <<>>
    ELSE (IF ChunkIsSkill(Head(chunks), tokens) THEN <<Head(chunks)>> ELSE <<>>)
         \o SkillChunks(Tail(chunks), tokens)

\* line 68-78
_extract_skills(d, seed) ==
    ListOfSet(SkillChunks(d.noun_chunks, d.tokens) \o TextsLabeled(d.ents, "TECH"),
              seed)

\* current_company before the first assignment (None), and after one
NoCompany == [some |-> FALSE, val |-> <<>>]
CompanyNamed(s) == [some |-> TRUE, val |-> s]

at_word == <<" ","a","t"," ">>

\* line 86: sent.text.split(" at ")[-1].split("(")[0].strip()
CompanyOf(senttext) ==
    LET pieces == Split(senttext, at_word) IN
    Strip(Split(pieces[Len(pieces)], <<"(">>)[1])

\* line 87: any(ent.label_ == "ORG" for ent in sent.ents)
HasOrg(sent) == \E i \in DOMAIN sent.ents : sent.ents[i] = "ORG"

\* line 87: `if current_company`: neither None nor the empty string
Truthy(company) == company.some /\ company.val # <<>>

\* mutant of CurrentCompany: a sentence without " at " resets the company
CurrentCompanyReset(sent, current) ==
    IF Contains(sent.text, at_word)
    THEN CompanyNamed(CompanyOf(sent.text))
    ELSE NoCompany

\* line 85-86: current_company after a sentence; a sentence without " at "
\* leaves it as it was
CurrentCompany(sent, current) ==
    IF Contains(sent.text, at_word)
    THEN CompanyNamed(CompanyOf(sent.text))
    ELSE current

\* line 84-88: the loop over doc.sents, from the state (current, companies)
RECURSIVE ScanSents(_, _, _)
ScanSents(sents, current, companies) ==
    IF sents = <<>> THEN companies
    ELSE LET sent == Head(sents)
             now  == CurrentCompany(sent, current)
         IN ScanSents(Tail(sents), now,
                      IF Truthy(now) /\ HasOrg(sent)
                      THEN Append(companies, now.val)
                      ELSE companies)

\* line 80-90
_extract_companies(d, seed) == ListOfSet(ScanSents(d.sents, NoCompany, <<>>), seed)

experience_word == <<"e","x","p","e","r","i","e","n","c","e">>

\* line 95
IsPosition(ent) ==
    \/ ent.label = "TITLE"
    \/ ent.root_dep = "attr" /\ Contains(Lower(ent.text), experience_word)

RECURSIVE PositionTexts(_)
PositionTexts(ents) ==
    IF ents = <<>> THEN <<>>
    ELSE (IF IsPosition(Head(ents)) THEN <<Head(ents).text>> ELSE <<>>)
         \o PositionTexts(Tail(ents))

\* line 92-97
_extract_positions(d, seed) == ListOfSet(PositionTexts(d.ents), seed)

\* line 107-108
_extract_certifications(d, seed) == ListOfSet(TextsLabeled(d.ents, "CERTIFICATION"), seed)

\* mutant of _extract_tools: the label of _extract_skills is tested
ToolsFromTech(d, seed) == ListOfSet(TextsLabeled(d.ents, "TECH"), seed)

\* line 110-111
_extract_tools(d, seed) == ListOfSet(TextsLabeled(d.ents, "TOOL"), seed)

\* line 30-39: the dict parse_resume builds from the text and its annotation
ResumeRecord(t, d, seed) ==
    [summary          |-> _extract_summary(t),
     total_experience |-> _calculate_experience(d),
     skills           |-> _extract_skills(d, seed),
     companies        |-> _extract_companies(d, seed),
     positions        |-> _extract_positions(d, seed),
     education        |-> _extract_education(t),
     certifications   |-> _extract_certifications(d, seed),
     tools            |-> _extract_tools(d, seed)]

-----------------------------------------------------------------------------
(* Bounds and input sets *)

MaxPieces == 5
MaxEnts == 3
MaxSents == 3
MaxChunks == 2
MaxFiles == 3
MaxPages == 2

RECURSIVE SeqsUpTo(_, _)
SeqsUpTo(S, n) ==
    IF n = 0 THEN {<<>>}
    ELSE LET shorter == SeqsUpTo(S, n - 1) IN
         shorter \cup {Append(q, x) : q \in shorter, x \in S}

\* texts: every concatenation of at most MaxPieces pieces, and three resumes
TextPieces ==
    {summary_word, <<"E","d","u","c","a","t","i","o","n">>,
     <<":">>, <<"\n">>, <<" ">>, <<"a">>}

RECURSIVE PieceTexts(_)
PieceTexts(n) ==
    IF n = 0 THEN {<<>>}
    ELSE LET shorter == PieceTexts(n - 1) IN
         shorter \cup {t \o p : t \in shorter, p \in TextPieces}

\* "Summary: Built scalable systems.\nEducation: BS Computer Science"
SummaryEducationText ==
    <<"S","u","m","m","a","r","y",":"," ","B","u","i","l","t"," ","s","c","a",
      "l","a","b","l","e"," ","s","y","s","t","e","m","s",".","\n","E","d","u",
      "c","a","t","i","o","n",":"," ","B","S"," ","C","o","m","p","u","t","e",
      "r"," ","S","c","i","e","n","c","e">>

\* "Objective:\nShip it\nSkills: x"
ObjectiveText ==
    <<"O","b","j","e","c","t","i","v","e",":","\n","S","h","i","p"," ","i","t",
      "\n","S","k","i","l","l","s",":"," ","x">>

\* "Education:\nBS\nBS\nWork: y"
TwoDegreesText ==
    <<"E","d","u","c","a","t","i","o","n",":","\n","B","S","\n","B","S","\n",
      "W","o","r","k",":"," ","y">>

Texts(n) ==
    PieceTexts(n) \cup {SummaryEducationText, ObjectiveText, TwoDegreesText}

EmptyDoc == [ents |-> <<>>, sents |-> <<>>, noun_chunks |-> <<>>, tokens |-> <<>>]

AWS == <<"A","W","S">>
Docker == <<"D","o","c","k","e","r">>
CertifiedSolutions ==
    <<"C","e","r","t","i","f","i","e","d"," ","S","o","l","u","t","i","o","n","s">>
Year2019 == <<"2","0","1","9">>
May2019 == <<"M","a","y"," ","2","0","1","9">>
YearsExperience ==
    <<"5"," ","y","e","a","r","s"," ","e","x","p","e","r","i","e","n","c","e">>

\* entities: DATE spans of four and of eight characters with each outcome of
\* date_parse (day 10 at 0h, day 374 at 23h, day 375 at 0h), a span with
\* "experience" in both syntactic roles, and spans of the three custom labels
\* and of TITLE, two texts under two labels
Entities ==
    [label : {"DATE"}, text : {May2019}, root_dep : {"pobj"},
     parsed : {DateNone, DateRaises, DateOn(240), DateOn(8999), DateOn(9000)}]
    \cup [label : {"DATE"}, text : {Year2019}, root_dep : {"pobj"},
          parsed : {DateOn(240)}]
    \cup [label : {"DATE"}, text : {YearsExperience}, root_dep : {"attr", "pobj"},
          parsed : {DateNone}]
    \cup [label : {"TECH", "TOOL"}, text : {AWS, Docker},
          root_dep : {"pobj"}, parsed : {DateNone}]
    \cup {[label |-> "CERTIFICATION", text |-> CertifiedSolutions,
           root_dep |-> "pobj", parsed |-> DateNone],
          [label |-> "TITLE", text |-> Docker,
           root_dep |-> "pobj", parsed |-> DateNone]}

EntDocs(n) == {[EmptyDoc EXCEPT !.ents = es] : es \in SeqsUpTo(Entities, n)}

\* "I worked at Acme Corp (NYC)"
WorkedAtAcme ==
    <<"I"," ","w","o","r","k","e","d"," ","a","t"," ","A","c","m","e"," ","C",
      "o","r","p"," ","(","N","Y","C",")">>
\* "We shipped features."
ShippedFeatures ==
    <<"W","e"," ","s","h","i","p","p","e","d"," ","f","e","a","t","u","r","e",
      "s",".">>
\* "Then at Beta"
ThenAtBeta == <<"T","h","e","n"," ","a","t"," ","B","e","t","a">>
\* "Met at at Initech"
MetAtAtInitech ==
    <<"M","e","t"," ","a","t"," ","a","t"," ","I","n","i","t","e","c","h">>
\* "Was at (remote)"
WasAtRemote == <<"W","a","s"," ","a","t"," ","(","r","e","m","o","t","e",")">>
\* "Intern at Acme, later at Globex (UK) "
InternLaterGlobex ==
    <<"I","n","t","e","r","n"," ","a","t"," ","A","c","m","e",","," ","l","a",
      "t","e","r"," ","a","t"," ","G","l","o","b","e","x"," ","(","U","K",")",
      " ">>

SentTexts ==
    {WorkedAtAcme, ShippedFeatures, ThenAtBeta, MetAtAtInitech, WasAtRemote,
     InternLaterGlobex}

\* a sentence: its text and the labels of the entities inside it
Sentences == [text : SentTexts, ents : {<<"PERSON">>, <<"DATE", "ORG">>}]

SentDocs(n) == {[EmptyDoc EXCEPT !.sents = ss] : ss \in SeqsUpTo(Sentences, n)}

ScalableAPIs == <<"s","c","a","l","a","b","l","e"," ","A","P","I","s">>
TheBuildTeam == <<"t","h","e"," ","B","u","i","l","d"," ","t","e","a","m">>

Tokens ==
    {[text |-> <<"B","u","i","l","d">>, pos |-> "VERB", lemma |-> "build"],
     [text |-> <<"b","u","i","l","t">>, pos |-> "VERB", lemma |-> "build"],
     [text |-> <<"t","e","a","m">>, pos |-> "NOUN", lemma |-> "team"],
     [text |-> <<"A","P","I","s">>, pos |-> "VERB", lemma |-> "api"]}

ChunkDocs(n) ==
    {[ents |-> es, sents |-> <<>>, noun_chunks |-> cs, tokens |-> ts] :
        es \in {<<>>, <<[label |-> "TECH", text |-> TheBuildTeam,
                         root_dep |-> "pobj", parsed |-> DateNone]>>},
        cs \in SeqsUpTo({ScalableAPIs, TheBuildTeam}, n),
        ts \in SeqsUpTo(Tokens, n)}

Docs(ne, ns, nc) == EntDocs(ne) \cup SentDocs(ns) \cup ChunkDocs(nc)

\* the hash seeds of the process
HashSeeds == {0, 1}

\* os.listdir never lists a name twice
FileNames ==
    {<<"a",".","p","d","f">>, <<"a",".","P","D","F">>, <<"b",".","p","d","f">>,
     <<"n","o","t","e","s",".","t","x","t">>}

Listings(n) ==
    {l \in SeqsUpTo(FileNames, n) :
        \A i, j \in DOMAIN l : i # j => l[i] # l[j]}

\* what page.extract_text() returns: the text of the page, or None for a page
\* without text
PageText == <<"P","a","g","e">>
PageNone == <<"None">>

-----------------------------------------------------------------------------
(* The batch driver *)

\* values of variables that hold nothing yet
NoText == <<"unset">>
NoRecord == [unset |-> TRUE]

pdf_suffix == <<".","p","d","f">>
json_suffix == <<".","j","s","o","n">>

\* mutant of IsPdf: the suffix is compared without lower()
IsPdfCaseSensitive(file) == EndsWith(file, pdf_suffix)

\* line 116: file.lower().endswith('.pdf')
IsPdf(file) == EndsWith(Lower(file), pdf_suffix)

\* os.path.splitext(file)[0]: cut at the last dot, unless only dots precede it
SplitextRoot(file) ==
    LET dots == {i \in DOMAIN file : file[i] = "."} IN
    IF dots = {} THEN file
    ELSE LET d == CHOOSE i \in dots : \A j \in dots : j <= i IN
         IF \A j \in 1..(d - 1) : file[j] = "." THEN file
         ELSE SubSeq(file, 1, d - 1)

\* line 119: f"{os.path.splitext(file)[0]}.json"
OutputName(file) == SplitextRoot(file) \o json_suffix

\* mutant of AfterError: the except branch sits outside the for loop, the
\* first error ends the batch
AfterErrorBreak(i, n) == n + 1

\* mutant of ExitWith: close() is called on the normal path only
ExitWithoutFinally(open, file, raised) == IF raised THEN open ELSE open \ {file}

\* line 122-123: the except branch prints one line and the for loop goes on
\* with the next entry
PrintError(lines, file, error) == Append(lines, [file |-> file, error |-> error])
AfterError(i, n) == i + 1

\* line 42: leaving the with block closes the handle, however it is left
ExitWith(open, file, raised) == open \ {file}

\* line 120-121: open(output_file, 'w') creates or truncates the file and
\* json.dump fills it
WriteFile(dir, name, entry) ==
    [n \in DOMAIN dir \cup {name} |-> IF n = name THEN entry ELSE dir[n]]

CurrentFile == listing[idx]

Init ==
    /\ listing \in Listings(MaxFiles)
    /\ idx = 1
    /\ pc = "idle"
    /\ text = NoText
    /\ doc = EmptyDoc
    /\ record = NoRecord
    /\ pages = 0
    /\ got = <<>>
    /\ handles = {}
    /\ outputs = <<>>
    /\ log = <<>>
    /\ parsed = <<>>

\* line 115-116: an entry that is no PDF is passed over
SkipFile ==
    /\ pc = "idle"
    /\ idx <= Len(listing)
    /\ ~IsPdf(CurrentFile)
    /\ idx' = idx + 1
    /\ UNCHANGED <<text, doc, record, listing, pc, pages, got, handles,
                   outputs, log, parsed>>

\* line 116-118: parse_resume is called on a PDF; `result` keeps the dict of
\* an earlier file until it is assigned again
StartParse ==
    /\ pc = "idle"
    /\ idx <= Len(listing)
    /\ IsPdf(CurrentFile)
    /\ pc' = "open"
    /\ parsed' = Append(parsed, CurrentFile)
    /\ UNCHANGED <<text, doc, record, listing, idx, pages, got, handles,
                   outputs, log>>

\* the locals of parse_resume and _extract_text are gone once the iteration
\* of the for loop is over
DropLocals ==
    /\ text' = NoText
    /\ doc' = EmptyDoc
    /\ pages' = 0
    /\ got' = <<>>

\* line 122-123, for an exception raised at any point of the try block
Fail(error) ==
    /\ log' = PrintError(log, CurrentFile, error)
    /\ idx' = AfterError(idx, Len(listing))
    /\ pc' = "idle"
    /\ DropLocals

\* line 42: pdfplumber.open returns a document of some number of pages
OpenPdf ==
    /\ pc = "open"
    /\ \E n \in 0..MaxPages : pages' = n
    /\ got' = <<>>
    /\ handles' = handles \cup {CurrentFile}
    /\ pc' = "read"
    /\ UNCHANGED <<text, doc, record, listing, idx, outputs, log, parsed>>

\* line 42: pdfplumber.open raises (no such file, not a PDF)
OpenRaises ==
    /\ pc = "open"
    /\ Fail("extract")
    /\ UNCHANGED <<record, listing, handles, outputs, parsed>>

\* line 43: the generator yields the next page's extract_text()
ReadPage ==
    /\ pc = "read"
    /\ Len(got) < pages
    /\ \E t \in {PageText, PageNone} : got' = Append(got, t)
    /\ UNCHANGED <<text, doc, record, listing, idx, pc, pages, handles,
                   outputs, log, parsed>>

\* line 43: extract_text raises on a page
ReadPageRaises ==
    /\ pc = "read"
    /\ Len(got) < pages
    /\ handles' = ExitWith(handles, CurrentFile, TRUE)
    /\ Fail("extract")
    /\ UNCHANGED <<record, listing, outputs, parsed>>

\* line 43: every page was read; join raises TypeError when a page gave None
JoinPages ==
    /\ pc = "read"
    /\ Len(got) = pages
    /\ IF PageNone \in Range(got)
       THEN /\ handles' = ExitWith(handles, CurrentFile, TRUE)
            /\ Fail("extract")
       ELSE /\ handles' = ExitWith(handles, CurrentFile, FALSE)
            /\ text' = Join(got)
            /\ pc' = "annotate"
            /\ UNCHANGED <<doc, pages, got, idx, log>>
    /\ UNCHANGED <<record, listing, outputs, parsed>>

\* line 28: self.nlp(text) returns an annotated document
Annotate ==
    /\ pc = "annotate"
    /\ doc' = EmptyDoc
    /\ pc' = "extract"
    /\ UNCHANGED <<text, record, listing, idx, pages, got, handles, outputs,
                   log, parsed>>

\* line 28: self.nlp(text) raises
AnnotateRaises ==
    /\ pc = "annotate"
    /\ Fail("parse")
    /\ UNCHANGED <<record, listing, handles, outputs, parsed>>

\* line 30-39: the extractors build the dict
ParseResume ==
    /\ pc = "extract"
    /\ \E seed \in HashSeeds : record' = ResumeRecord(text, doc, seed)
    /\ pc' = "write"
    /\ UNCHANGED <<text, doc, listing, idx, pages, got, handles, outputs,
                   log, parsed>>

\* line 119-121: the record is written under the output name
WriteJson ==
    /\ pc = "write"
    /\ outputs' = WriteFile(outputs, OutputName(CurrentFile),
                            [src |-> CurrentFile, content |-> record,
                             complete |-> TRUE])
    /\ idx' = idx + 1
    /\ pc' = "idle"
    /\ DropLocals
    /\ UNCHANGED <<record, listing, handles, log, parsed>>

\* line 120: open(output_file, 'w') raises, the directory is as it was
WriteOpenRaises ==
    /\ pc = "write"
    /\ Fail("write")
    /\ UNCHANGED <<record, listing, handles, outputs, parsed>>

\* line 121: json.dump raises after the file was created or truncated
WriteDumpRaises ==
    /\ pc = "write"
    /\ outputs' = WriteFile(outputs, OutputName(CurrentFile),
                            [src |-> CurrentFile, content |-> NoRecord,
                             complete |-> FALSE])
    /\ Fail("write")
    /\ UNCHANGED <<record, listing, handles, parsed>>

\* line 115: the listing is exhausted
Finish ==
    /\ pc = "idle"
    /\ idx > Len(listing)
    /\ pc' = "done"
    /\ UNCHANGED <<text, doc, record, listing, idx, pages, got, handles,
                   outputs, log, parsed>>

Next ==
    \/ SkipFile
    \/ StartParse
    \/ OpenPdf
    \/ OpenRaises
    \/ ReadPage
    \/ ReadPageRaises
    \/ JoinPages
    \/ Annotate
    \/ AnnotateRaises
    \/ ParseResume
    \/ WriteJson
    \/ WriteOpenRaises
    \/ WriteDumpRaises
    \/ Finish

Spec == Init /\ [][Next]_vars

\* the driver is a plain loop: it takes its next step whenever it has one
FairSpec == Spec /\ WF_vars(Next)

-----------------------------------------------------------------------------
(* parse_resume on its own: one call on each input *)

ResumeFile == <<"r",".","p","d","f">>

ParseInit ==
    /\ record = NoRecord
    /\ listing = <<ResumeFile>>
    /\ idx = 1
    /\ pc = "extract"
    /\ pages = 0
    /\ got = <<>>
    /\ handles = {}
    /\ outputs = <<>>
    /\ log = <<>>
    /\ parsed = <<ResumeFile>>

\* the annotator is applied to the text, but nothing in the extractors relates
\* what it returns to the text: the text varies under an empty annotation,
\* and the annotation varies over an empty text
InitText == text \in Texts(MaxPieces) /\ doc = EmptyDoc /\ ParseInit

InitDoc == text = <<>> /\ doc \in Docs(MaxEnts, MaxSents, MaxChunks) /\ ParseInit

NextParse == ParseResume

SpecText == InitText /\ [][NextParse]_vars

SpecDoc == InitDoc /\ [][NextParse]_vars

-----------------------------------------------------------------------------
(* Properties of parse_resume *)

ListFields == {"skills", "companies", "positions", "education",
               "certifications", "tools"}

NoDuplicates(xs) == \A i, j \in DOMAIN xs : i # j => xs[i] # xs[j]

Returned == record # NoRecord

\* C1: every list-valued field of the record parse_resume returns (skills,
\* companies, positions, education, certifications, tools) is free of
\* duplicates, education included
C1_NoDuplicateInAnyList ==
    Returned => \A f \in ListFields : NoDuplicates(record[f])

\* position i starts a line of s
LineStart(s, i) == i = 1 \/ s[i - 1] = "\n"

\* the positions where a line of s begins with one of the labels kws followed
\* by a colon, whatever the case
LabelStarts(s, kws) ==
    {i \in DOMAIN s :
        /\ LineStart(s, i)
        /\ \E n \in DOMAIN kws :
              /\ MatchesAt(Lower(s), i, kws[n])
              /\ i + Len(kws[n]) <= Len(s)
              /\ s[i + Len(kws[n])] = ":"}

\* the text of the first labelled section of s: from behind the colon of the
\* first line that begins with a label of kws up to the next line that begins
\* with word characters and a colon, or to the end; <<>> without such a line
SectionBody(s, kws) ==
    IF LabelStarts(s, kws) = {} THEN <<>>
    ELSE LET i    == CHOOSE a \in LabelStarts(s, kws) :
                        \A b \in LabelStarts(s, kws) : a <= b
             from == 1 + CHOOSE c \in i..Len(s) :
                        s[c] = ":" /\ \A b \in i..(c - 1) : s[b] # ":"
             stop == CHOOSE k \in from..(Len(s) + 1) :
                        /\ k = Len(s) + 1 \/ LabelAhead(s, k)
                        /\ \A m \in from..(k - 1) : ~LabelAhead(s, m)
         IN SubSeq(s, from, stop - 1)

\* C6: _extract_summary returns the trimmed text from the first line that
\* begins with "summary:" or "objective:" up to the next "Label:" line or the
\* end of the text, and the empty string when no line begins with such a label
C6_SummaryOfLabelledLine ==
    Returned =>
        record.summary = Strip(SectionBody(text, <<summary_word, objective_word>>))

\* C7: _extract_education returns, in order, exactly the non-empty trimmed
\* lines between a line beginning "education:" and the next "Label:" line or
\* the end of the text, and the empty list when there is no education section
C7_EducationOfLabelledLine ==
    Returned =>
        record.education =
            StrippedLines(Split(SectionBody(text, <<education_word>>), <<"\n">>))

\* the entities of the document that give a valid date: DATE spans of more
\* than four characters that date_parse turns into a datetime
ValidDateEnts ==
    {i \in DOMAIN doc.ents :
        /\ doc.ents[i].label = "DATE"
        /\ Len(doc.ents[i].text) > 4
        /\ doc.ents[i].parsed.kind = "date"}

\* the DATE spans of more than four characters, parseable or not
RawDateEnts ==
    {i \in DOMAIN doc.ents :
        doc.ents[i].label = "DATE" /\ Len(doc.ents[i].text) > 4}

\* floor(a / b) for a >= 0 and b > 0, by its defining inequalities
FloorDiv(a, b) == CHOOSE q \in 0..a : q * b <= a /\ a < (q + 1) * b

EntityTexts(l) == {doc.ents[i].text : i \in {j \in DOMAIN doc.ents : doc.ents[j].label = l}}

\* C8: certifications is the set of the texts of the CERTIFICATION entities,
\* tools the set of the texts of the TOOL entities, and skills holds the text
\* of every TECH entity; an entity of another label is in neither
\* certifications nor tools
C8_LabelledFields ==
    Returned =>
        /\ Range(record.certifications) = EntityTexts("CERTIFICATION")
        /\ Range(record.tools) = EntityTexts("TOOL")
        /\ EntityTexts("TECH") \subseteq Range(record.skills)

\* C8 witness: the document with the entities (AWS, TECH), (Certified
\* Solutions, CERTIFICATION), (Docker, TOOL)
C8_Witness ==
    /\ Returned
    /\ Len(doc.ents) = 3
    /\ doc.ents[1].label = "TECH" /\ doc.ents[1].text = AWS
    /\ doc.ents[2].label = "CERTIFICATION" /\ doc.ents[2].text = CertifiedSolutions
    /\ doc.ents[3].label = "TOOL" /\ doc.ents[3].text = Docker
    /\ record.skills = <<AWS>>
    /\ record.certifications = <<CertifiedSolutions>>
    /\ record.tools = <<Docker>>

\* the sentences at or before sentence i that contain " at "
AtSentences(i) == {k \in 1..i : Contains(doc.sents[k].text, at_word)}

\* the most recent of them
LastAtSentence(i) == CHOOSE k \in AtSentences(i) : \A m \in AtSentences(i) : m <= k

\* the sentences that contain an ORG entity and have a sentence with " at " at
\* or before them
OrgSentences ==
    {i \in DOMAIN doc.sents :
        /\ \E e \in DOMAIN doc.sents[i].ents : doc.sents[i].ents[e] = "ORG"
        /\ AtSentences(i) # {}}

\* s cut before its first "(" and trimmed
CutAndTrim(s) ==
    LET parens == {i \in DOMAIN s : s[i] = "("} IN
    IF parens = {} THEN Strip(s)
    ELSE Strip(SubSeq(s, 1, (CHOOSE i \in parens : \A j \in parens : i <= j) - 1))

\* the text after the last occurrence of " at " in s
AfterLastAt(s) ==
    LET occ  == {i \in DOMAIN s : MatchesAt(s, i, at_word)}
        last == CHOOSE i \in occ : \A j \in occ : j <= i
    IN SubSeq(s, last + Len(at_word), Len(s))

\* C4 as stated: for every sentence with an ORG entity the value added is the
\* text after the last " at " of the most recent sentence containing " at ",
\* cut before "(" and trimmed
C4_AsStated ==
    Returned =>
        Range(record.companies) =
            {CutAndTrim(AfterLastAt(doc.sents[LastAtSentence(i)].text)) :
                i \in OrgSentences}

\* the occurrences of " at " in s that split(" at ") cuts at: the first one,
\* then each first one that starts behind the end of the one before
RECURSIVE CutPoints(_, _)
CutPoints(s, from) ==
    LET occ == {i \in from..Len(s) : MatchesAt(s, i, at_word)} IN
    IF occ = {} THEN {}
    ELSE LET first == CHOOSE i \in occ : \A j \in occ : i <= j IN
         {first} \cup CutPoints(s, first + Len(at_word))

\* the text after the last " at " that does not overlap an earlier one
AfterLastCut(s) ==
    LET cuts == CutPoints(s, 1)
        last == CHOOSE i \in cuts : \A j \in cuts : j <= i
    IN SubSeq(s, last + Len(at_word), Len(s))

\* C4 amended: for every sentence with an ORG entity the value added is the
\* text after the last " at " (occurrences counted from the left, without
\* overlap) of the most recent sentence containing " at ", cut before "(" and
\* trimmed, and it is added only when it is not empty; a sentence without
\* " at " does not reset current_company
C4_Companies ==
    Returned =>
        Range(record.companies) =
            {CutAndTrim(AfterLastCut(doc.sents[LastAtSentence(i)].text)) :
                i \in OrgSentences} \ {<<>>}

\* C4 witness: ["I worked at Acme Corp (NYC)", "We shipped features."] with an
\* ORG entity in the second sentence only gives ["Acme Corp"]
C4_Witness ==
    /\ Returned
    /\ Len(doc.sents) = 2
    /\ doc.sents[1] = [text |-> WorkedAtAcme, ents |-> <<"PERSON">>]
    /\ doc.sents[2] = [text |-> ShippedFeatures, ents |-> <<"DATE", "ORG">>]
    /\ record.companies = <<<<"A","c","m","e"," ","C","o","r","p">>>>

-----------------------------------------------------------------------------
(* Properties of process_resumes *)

\* the name ends in ".pdf" in any mix of cases
HasPdfSuffix(file) ==
    /\ Len(file) >= 4
    /\ Lower(SubSeq(file, Len(file) - 3, Len(file))) = <<".","p","d","f">>

\* the entries the loop has dealt with: all before idx, and the one at idx
\* once its parse has begun
Visited ==
    SubSeq(listing, 1, IF pc \in {"idle", "done"} THEN idx - 1 ELSE idx)

LinesAbout(file) == {k \in DOMAIN log : log[k].file = file}

OutputsOf(file) == {n \in DOMAIN outputs : outputs[n].src = file}

\* C2, in every state: a file with an error line of text extraction has that
\* one line and no output file, and a driver that is done has called
\* parse_resume on every PDF of the directory
C2_FailedFiles ==
    /\ \A k \in DOMAIN log :
          log[k].error = "extract" =>
              /\ Cardinality(LinesAbout(log[k].file)) = 1
              /\ OutputsOf(log[k].file) = {}
    /\ pc = "done" => parsed = SelectSeq(listing, HasPdfSuffix)

\* C2, in every step: when text extraction (open, read, join) ends without
\* returning, the step prints one line about the file, writes nothing and
\* moves on to the next entry
C2_FailingStep ==
    (pc \in {"open", "read"} /\ pc' = "idle") =>
        /\ log' = Append(log, [file |-> listing[idx], error |-> "extract"])
        /\ outputs' = outputs
        /\ idx' = idx + 1

C5_OneOutputPerPdf ==
    (pc = "done" /\ log = <<>>) =>
        /\ \A i \in DOMAIN listing :
              HasPdfSuffix(listing[i]) =>
                  /\ OutputName(listing[i]) \in DOMAIN outputs
                  /\ outputs[OutputName(listing[i])].src = listing[i]
        /\ Cardinality(DOMAIN outputs) =
              Cardinality({i \in DOMAIN listing : HasPdfSuffix(listing[i])})

\* C9, in every state: no handle is open outside the with block, inside it
\* only the current file's is, and a text that was returned is the join of
\* all the pages
C9_NoOpenHandle ==
    /\ pc # "read" => handles = {}
    /\ pc = "read" => handles = {listing[idx]}
    /\ pc \in {"open", "read"} => text = NoText
    /\ text # NoText =>
          /\ Len(got) = pages
          /\ \A i \in DOMAIN got : got[i] # PageNone
          /\ text = Join(got)

\* C9, in every step: the step that leaves the with block, by return or by
\* exception, leaves no handle open, and by exception it leaves no text
C9_LeavingStep ==
    (pc = "read" /\ pc' # "read") =>
        /\ handles' = {}
        /\ pc' = "idle" => text' = NoText
        /\ pc' # "idle" => pc' = "annotate" /\ text' = Join(got)

\* C9: the handle _extract_text opens is closed on every way out, after any
\* sequence of files no handle is open, and a failing extraction returns no
\* partial text
C9_HandleClosed ==
    /\ []C9_NoOpenHandle
    /\ [][C9_LeavingStep]_vars

\* C9 witness: extraction has failed on one file after a page was read and
\* another file is being read, with its handle the only one open
C9_Witness ==
    /\ pc = "read"
    /\ idx > 1
    /\ got # <<>>
    /\ log # <<>>
    /\ log[Len(log)].error = "extract"
    /\ handles = {listing[idx]}

\* C10, in every state: the write of a file comes after its parse returned a
\* record; the files parsed are the PDFs among the entries visited, in order
\* and once each, so that an entry that is no PDF is never parsed; every
\* output comes from a parsed PDF; the driver is done only behind the last
\* entry
C10_OneAtATime ==
    /\ pc \in {"idle", "open", "read", "annotate", "extract", "write", "done"}
    /\ pc = "write" =>
          /\ text # NoText
          /\ \E seed \in HashSeeds : record = ResumeRecord(text, doc, seed)
          /\ parsed[Len(parsed)] = listing[idx]
    /\ parsed = SelectSeq(Visited, HasPdfSuffix)
    /\ \A n \in DOMAIN outputs :
          HasPdfSuffix(outputs[n].src) /\ \E k \in DOMAIN parsed : parsed[k] = outputs[n].src
    /\ pc = "done" => idx = Len(listing) + 1

\* C10, in every step: the loop moves by one entry at a time; a parse begins
\* in IDLE only; a file is left for IDLE only once it is written (from WRITE)
\* or an error line about it is printed; only WRITE changes the output
\* directory
C10_Cycle ==
    /\ idx' \in {idx, idx + 1}
    /\ parsed' # parsed => pc = "idle" /\ pc' = "open"
    /\ (pc \notin {"idle", "done"} /\ pc' = "idle") =>
          /\ idx' = idx + 1
          /\ \/ /\ pc = "write"
                /\ log' = log
                /\ outputs'[OutputName(listing[idx])].src = listing[idx]
                /\ outputs'[OutputName(listing[idx])].complete
             \/ /\ Len(log') = Len(log) + 1
                /\ log'[Len(log')].file = listing[idx]
    /\ DOMAIN outputs' # DOMAIN outputs => pc = "write"
    /\ pc = "done" => pc' = "done"

\* C10: process_resumes handles the files one at a time in the cycle IDLE,
\* PARSE, WRITE, IDLE, never parses an entry that is no PDF, and terminates
\* after visiting every entry once, whatever fails
C10_DriverCycle ==
    /\ []C10_OneAtATime
    /\ [][C10_Cycle]_vars
    /\ <>(pc = "done")

\* C10 witness: the driver is done with three entries, one no PDF, one failed,
\* one written
C10_Witness ==
    /\ pc = "done"
    /\ Len(listing) = 3
    /\ \E i \in DOMAIN listing : ~HasPdfSuffix(listing[i])
    /\ Len(log) = 1
    /\ Cardinality(DOMAIN outputs) = 1

====
